---------------------------- MODULE Spec2Model ----------------------------
(***************************************************************************)
(* x402 facilitator: the HTTP handlers of src/handlers.rs over the         *)
(* facilitator's decision engine and chain adapters.                       *)
(*                                                                         *)
(* handlers.rs, main.rs, network.rs and rate_limit.rs are translated from  *)
(* the source.  The decision engine (facilitator_local), the chain         *)
(* adapters (chain) and the wire types (types) are modelled from the       *)
(* design document.                                                        *)
(***************************************************************************)
EXTENDS Integers, Sequences, FiniteSets, TLC

(***************************************************************************)
(* Bounds of the model.                                                    *)
(***************************************************************************)
\* Timestamps (validAfter, validBefore, the clock) range over 0..MaxTime.
MaxTime == 1
\* Amounts (authorized value, required amount) range up to MaxValue.
MaxValue == 1
\* Concurrent requests of the concurrent specification.
NumTasks == 2
\* A path string is a concatenation of at most MaxPieces pieces.
MaxPieces == 3
\* Hex digits of an EVM transaction hash after its prefix (64 in production).
HashHexLen == 1

Tasks == 1..NumTasks
\* The task of the sequential specification.
SoloTasks == {1}

NoValue == "none"

(***************************************************************************)
(* network.rs                                                              *)
(***************************************************************************)
Network == {"monad", "monad-testnet", "solana", "solana-devnet"}

NetworkFamily(n) ==
    CASE n = "monad" -> "Evm"
      [] n = "monad-testnet" -> "Evm"
      [] n = "solana" -> "Solana"
      [] n = "solana-devnet" -> "Solana"

(***************************************************************************)
(* Provider cache: the networks with a live client, fixed at startup.      *)
(***************************************************************************)
CacheConfigs == { Network, {"monad-testnet", "solana-devnet"} }

(***************************************************************************)
(* Requests.  A verify and a settle request carry the same body: the       *)
(* payment payload and the payment requirements.                           *)
(***************************************************************************)
Schemes == {"exact", "upto"}
PayTo == "P"
Payer == "payer"

PaymentBodies ==
    [ rnet    : Network,                 \* requirements.network
      pnet    : Network,                 \* payload.network
      rscheme : {"exact"},               \* requirements.scheme
      pscheme : Schemes,                 \* payload.scheme
      pay_to  : {PayTo},                 \* requirements.pay_to
      to      : {PayTo, "Q"},            \* authorization receiver
      from    : {Payer},                 \* authorization sender
      asset   : {"usdc", "malformed"},   \* requirements.asset address
      sig     : {"valid", "wrong", "undecodable"},
      validAfter  : 0..MaxTime,
      validBefore : 0..MaxTime,
      value   : 0..MaxValue,             \* authorized value
      amount  : 1..MaxValue ]            \* requirements.amount

NoBody == [ rnet |-> NoValue ]

\* What the environment answers when the engine consults it.
FundsOutcomes == {"enough", "low", "rpc_error"}
\* "lost_reply": the network accepted the transaction and the RPC call failed.
SendOutcomes == {"accepted", "rpc_error", "lost_reply"}
LookupOutcomes == {"pending", "confirmed", "failed", "missing", "rpc_error"}

VARIABLES
    cache,      \* provider cache: networks with a live client
    pc,         \* pc[t]: where task t is in its handler
    endpoint,   \* endpoint[t]: "verify" | "settle" | "status" | NoValue
    body,       \* body[t]: the request body of a verify or settle request
    clock,      \* clock[t]: [state, now], the clock reading of the timing step
    funds,      \* funds[t]: the answer of the funds check, "unread" before it
    result,     \* result[t]: what the facilitator returned to the handler
    resp,       \* resp[t]: the HTTP response of task t
    lock,       \* lock[n]: the task inside submit_transfer on network n, 0 if none
    chain,      \* chain[n]: relayer transactions network n accepted (EVM: the nonce)
    held,       \* held[t]: the relayer nonce task t obtained, -1 if none
    submits,    \* submits[t]: calls of submit_transfer made for task t's request
    onchain,    \* onchain[t]: the transaction of task t the network accepted
    path,       \* path[t]: the :tx_hash path string of a status request
    lookup,     \* lookup[t]: the adapter's answer, [family, outcome]
    proc,       \* the process: [phase, built, bound], see main
    rate,       \* the rate limiting configuration main loaded
    client,     \* client[t]: the IP address task t's request came from
    served      \* served[ip][class]: requests let through in the current minute

vars == << cache, pc, endpoint, body, clock, funds, result, resp,
           lock, chain, held, submits, onchain, path, lookup,
           proc, rate, client, served >>

bootVars == << proc, rate >>
layerVars == << client, served >>

reqVars == << endpoint, body, clock, funds >>
chainVars == << lock, chain, held, submits, onchain >>
statusVars == << path, lookup >>

(***************************************************************************)
(* Wire types (types): VerifyResponse, SettleResponse, ErrorResponse.      *)
(***************************************************************************)
NoReason == [ code |-> NoValue, msg |-> NoValue ]
Reason(code) == [ code |-> code, msg |-> NoValue ]
FreeForm(msg) == [ code |-> "FreeForm", msg |-> msg ]

VerifyResponseValid(payer) ==
    [ kind |-> "VerifyResponse", is_valid |-> TRUE, payer |-> payer,
      invalid_reason |-> NoReason ]

VerifyResponseInvalid(payer, reason) ==
    [ kind |-> "VerifyResponse", is_valid |-> FALSE, payer |-> payer,
      invalid_reason |-> reason ]

ErrorResponse(msg) == [ kind |-> "ErrorResponse", error |-> msg ]

NoTx == [ net |-> NoValue, seq |-> 0 ]
Tx(n, seq) == [ net |-> n, seq |-> seq ]

SettleResponseOk(tx, n, payer) ==
    [ kind |-> "SettleResponse", success |-> TRUE, transaction |-> tx,
      network |-> n, payer |-> payer, error_reason |-> NoReason ]

TransactionStatus(state) == [ kind |-> "TransactionStatus", state |-> state ]

HttpResponse(status, b) == [ status |-> status, body |-> b ]
NoResp == [ status |-> 0, body |-> [ kind |-> NoValue ] ]

(***************************************************************************)
(* FacilitatorLocalError (chain) and the facilitator's results.            *)
(***************************************************************************)
Err(tag, payer, msg) == [ tag |-> tag, payer |-> payer, msg |-> msg ]
Ok(value) == [ tag |-> "Ok", value |-> value ]
NoResult == [ tag |-> NoValue ]

(***************************************************************************)
(* The decision engine (facilitator_local): the ordered checks of verify.  *)
(***************************************************************************)
Unread == [ state |-> "unread", now |-> 0 ]
ClockReadings ==
    [ state : {"ok"}, now : 0..MaxTime ] \cup { [ state |-> "unavailable", now |-> 0 ] }

\* (mutant) a window open at validBefore.
assert_time_exclusive(b, now) == b.validAfter <= now /\ now < b.validBefore

\* The timing step: validAfter <= now <= validBefore.
assert_time(b, now) == b.validAfter <= now /\ now <= b.validBefore

\* The value step: authorized value >= requirements.amount.
assert_enough_value(b) == b.value >= b.amount

\* (mutant) the network compared before the scheme.
VerifySteps_network_before_scheme ==
    << "network_known", "network_match", "scheme", "receiver", "signature",
       "timing", "value", "funds" >>

VerifySteps ==
    << "network_known", "scheme", "network_match", "receiver", "signature",
       "timing", "value", "funds" >>

\* One step of the engine: "pass", or the error it ends the request with.
CheckStep(step, b, c, clk, f) ==
    CASE step = "network_known" ->
           IF b.rnet \in c THEN "pass" ELSE "UnsupportedNetwork"
      [] step = "scheme" ->
           IF b.pscheme = b.rscheme THEN "pass" ELSE "SchemeMismatch"
      [] step = "network_match" ->
           IF b.pnet = b.rnet THEN "pass" ELSE "NetworkMismatch"
      [] step = "receiver" ->
           IF b.to = b.pay_to THEN "pass" ELSE "ReceiverMismatch"
      [] step = "signature" ->
           IF b.sig = "undecodable" THEN "DecodingError"
           ELSE IF b.sig = "valid" THEN "pass" ELSE "InvalidSignature"
      [] step = "timing" ->
           IF clk.state # "ok" THEN "ClockError"
           ELSE IF assert_time(b, clk.now) THEN "pass" ELSE "InvalidTiming"
      [] step = "value" ->
           IF assert_enough_value(b) THEN "pass" ELSE "InsufficientValue"
      [] step = "funds" ->
           IF b.asset = "malformed" THEN "InvalidAddress"
           ELSE IF f = "enough" THEN "pass"
           ELSE IF f = "low" THEN "InsufficientFunds" ELSE "ContractCall"

\* The steps run from step i on: [ran, outcome], short-circuiting on the
\* first failure.
RECURSIVE RunFrom(_, _, _, _, _)
RunFrom(i, b, c, clk, f) ==
    IF i > Len(VerifySteps) THEN [ ran |-> i - 1, outcome |-> "pass" ]
    ELSE LET o == CheckStep(VerifySteps[i], b, c, clk, f)
         IN  IF o = "pass" THEN RunFrom(i + 1, b, c, clk, f)
             ELSE [ ran |-> i, outcome |-> o ]

assert_valid_payment(b, c, clk, f) == RunFrom(1, b, c, clk, f)

\* The payer an error carries: unknown before the payload is looked at and
\* for errors that carry none.
ErrorPayer(tag, b) ==
    IF tag \in { "UnsupportedNetwork", "DecodingError", "ContractCall",
                 "InvalidAddress", "ClockError" }
    THEN NoValue ELSE b.from

ErrorMsg(tag) == IF tag = "DecodingError" THEN "bad signature encoding" ELSE NoValue

ErrorOf(tag, b) == Err(tag, ErrorPayer(tag, b), ErrorMsg(tag))

\* (mutant) settle trusting an earlier verify.
settle_unchecked(b, c, clk, f) == [ ran |-> 0, outcome |-> "pass" ]

\* Facilitator::settle re-applies the checks of verify before it submits.
settle_precheck(b, c, clk, f) == assert_valid_payment(b, c, clk, f)

\* Facilitator::verify.
verify(b, c, clk, f) ==
    LET r == assert_valid_payment(b, c, clk, f)
    IN  IF r.outcome = "pass" THEN Ok(VerifyResponseValid(b.from))
        ELSE ErrorOf(r.outcome, b)

\* The environment is consulted only by the steps that run: the clock by the
\* timing step, the chain's balance by the funds step.
StepIndex(step) == CHOOSE i \in 1..Len(VerifySteps) : VerifySteps[i] = step

EnvsFor(b, c) ==
    { e \in [ clk : ClockReadings \cup {Unread}, f : FundsOutcomes \cup {"unread"} ] :
        LET ran == assert_valid_payment(b, c, e.clk, e.f).ran
        IN  /\ (e.clk = Unread) <=> (ran < StepIndex("timing"))
            /\ (e.f = "unread") <=> (ran < StepIndex("funds") \/ b.asset = "malformed") }

\* Requests with what the environment answers while each is checked.
CasesOf(B, c) == UNION { { [ b |-> b, e |-> e ] : e \in EnvsFor(b, c) } : b \in B }

AllCases(c) == CasesOf(PaymentBodies, c)

\* The requests of the concurrent specification: well-formed payments on one
\* network, correctly or wrongly signed, with the clock and the funds check
\* answering.
ConcBodies ==
    { b \in PaymentBodies :
        /\ b.rnet = b.pnet /\ b.pscheme = b.rscheme /\ b.to = b.pay_to
        /\ b.asset = "usdc" /\ b.sig \in {"valid", "wrong"}
        /\ b.validAfter = 0 /\ b.validBefore = MaxTime
        /\ b.value = MaxValue /\ b.amount = MaxValue }

ConcCases(c) ==
    { x \in CasesOf(ConcBodies, c) :
        /\ x.e.clk \in { Unread, [ state |-> "ok", now |-> 0 ] }
        /\ x.e.f \in { "unread", "enough" } }

(***************************************************************************)
(* The chain adapters (chain): submit_transfer and transaction_status.     *)
(***************************************************************************)
\* Whether the network accepts the transaction task t sends: an EVM network
\* rejects a transaction whose nonce is not the relayer's next one.
Accepts(n, nonce, o) ==
    /\ o \in {"accepted", "lost_reply"}
    /\ (NetworkFamily(n) = "Evm" => nonce = chain[n])

\* What submit_transfer returns.
SubmitResult(n, nonce, o, b) ==
    IF o = "accepted" /\ Accepts(n, nonce, o)
    THEN Ok(SettleResponseOk(Tx(n, chain[n]), n, b.from))
    ELSE Err("ContractCall", NoValue, NoValue)

\* transaction_status: the chain's answer as the unified status.
transaction_status(o) ==
    CASE o = "pending" -> Ok(TransactionStatus("Pending"))
      [] o = "confirmed" -> Ok(TransactionStatus("Confirmed"))
      [] o = "failed" -> Ok(TransactionStatus("Failed"))
      [] o = "missing" -> Ok(TransactionStatus("NotFound"))
      [] o = "rpc_error" -> Err("ContractCall", NoValue, NoValue)

(***************************************************************************)
(* handlers.rs: the error mapping.                                         *)
(***************************************************************************)
\* (mutant) the payer left out of the response.
invalid_schema_no_payer(payer) == VerifyResponseInvalid(NoValue, Reason("InvalidScheme"))

invalid_schema(payer) == VerifyResponseInvalid(payer, Reason("InvalidScheme"))

\* (mutant) an infrastructure failure answered as a negative verification.
bad_request_as_invalid ==
    HttpResponse(200, VerifyResponseInvalid(NoValue, Reason("InsufficientFunds")))

bad_request == HttpResponse(400, ErrorResponse("Invalid request"))

\* (mutant) a network error answered with the scheme's reason.
invalid_network_as_scheme(payer) ==
    HttpResponse(200, VerifyResponseInvalid(payer, Reason("InvalidScheme")))

\* The arm of NetworkMismatch and UnsupportedNetwork.
invalid_network(payer) ==
    HttpResponse(200, VerifyResponseInvalid(payer, Reason("InvalidNetwork")))

\* (mutant) a negative response built without its reason.
insufficient_funds_no_reason(payer) ==
    HttpResponse(200, [ kind |-> "VerifyResponse", is_valid |-> FALSE,
                        payer |-> payer, invalid_reason |-> NoReason ])

\* The arm of InsufficientFunds.
insufficient_funds(payer) ==
    HttpResponse(200, VerifyResponseInvalid(payer, Reason("InsufficientFunds")))

IntoResponse(error) ==
    CASE error.tag = "SchemeMismatch" ->
           HttpResponse(200, invalid_schema(error.payer))
      [] error.tag \in { "ReceiverMismatch", "InvalidSignature", "InvalidTiming",
                         "InsufficientValue" } ->
           HttpResponse(200, invalid_schema(error.payer))
      [] error.tag \in { "NetworkMismatch", "UnsupportedNetwork" } ->
           invalid_network(error.payer)
      [] error.tag \in { "ContractCall", "InvalidAddress", "ClockError" } ->
           bad_request
      [] error.tag = "DecodingError" ->
           HttpResponse(200, VerifyResponseInvalid(NoValue, FreeForm(error.msg)))
      [] error.tag = "InsufficientFunds" ->
           insufficient_funds(error.payer)

\* Ok(value) => (200, Json(value)); Err(error) => error.into_response().
RespondTo(r) == IF r.tag = "Ok" THEN HttpResponse(200, r.value) ELSE IntoResponse(r)

(***************************************************************************)
(* handlers.rs: POST /verify.                                              *)
(***************************************************************************)
post_verify(t, C) ==
    /\ pc[t] = "idle"
    /\ \E x \in C :
         LET r == verify(x.b, cache, x.e.clk, x.e.f)
         IN  /\ endpoint' = [endpoint EXCEPT ![t] = "verify"]
             /\ body' = [body EXCEPT ![t] = x.b]
             /\ clock' = [clock EXCEPT ![t] = x.e.clk]
             /\ funds' = [funds EXCEPT ![t] = x.e.f]
             /\ result' = [result EXCEPT ![t] = r]
             /\ resp' = [resp EXCEPT ![t] = RespondTo(r)]
             /\ pc' = [pc EXCEPT ![t] = "done"]
    /\ UNCHANGED << cache, chainVars, statusVars >>

(***************************************************************************)
(* handlers.rs: POST /settle.  Facilitator::settle runs the checks of      *)
(* verify and then submit_transfer; it suspends where it waits for the     *)
(* submission lock of its network and at the calls into the chain.         *)
(***************************************************************************)
\* settle, up to the end of its checks.
settle_checks(t, C) ==
    /\ pc[t] = "idle"
    /\ \E x \in C :
         LET r == settle_precheck(x.b, cache, x.e.clk, x.e.f)
             failed == ErrorOf(r.outcome, x.b)
         IN  /\ endpoint' = [endpoint EXCEPT ![t] = "settle"]
             /\ body' = [body EXCEPT ![t] = x.b]
             /\ clock' = [clock EXCEPT ![t] = x.e.clk]
             /\ funds' = [funds EXCEPT ![t] = x.e.f]
             /\ IF r.outcome = "pass"
                THEN /\ pc' = [pc EXCEPT ![t] = "lock_wait"]
                     /\ UNCHANGED << result, resp >>
                ELSE /\ result' = [result EXCEPT ![t] = failed]
                     /\ resp' = [resp EXCEPT ![t] = RespondTo(failed)]
                     /\ pc' = [pc EXCEPT ![t] = "done"]
    /\ UNCHANGED << cache, chainVars, statusVars >>

\* (mutant) submission without serialization.
MayEnter_unserialized(t, n) == TRUE

\* Whether task t may enter submit_transfer on network n.
MayEnter(t, n) == lock[n] = 0

\* settle enters submit_transfer under the lock of (network, relayer).
submit_enter(t) ==
    /\ pc[t] = "lock_wait"
    /\ MayEnter(t, body[t].pnet)
    /\ lock' = [lock EXCEPT ![body[t].pnet] = t]
    /\ submits' = [submits EXCEPT ![t] = @ + 1]
    /\ pc' = [pc EXCEPT ![t] =
                IF NetworkFamily(body[t].pnet) = "Evm" THEN "read_nonce" ELSE "send"]
    /\ UNCHANGED << cache, reqVars, result, resp, chain, held, onchain, statusVars >>

\* submit_transfer (EVM) obtains the relayer's next nonce.
submit_nonce(t) ==
    /\ pc[t] = "read_nonce"
    /\ held' = [held EXCEPT ![t] = chain[body[t].pnet]]
    /\ pc' = [pc EXCEPT ![t] = "send"]
    /\ UNCHANGED << cache, reqVars, result, resp, lock, chain, submits, onchain,
                    statusVars >>

\* (mutant) a failed submission tried again.
after_settle_retrying(r) == IF r.tag = "ContractCall" THEN "lock_wait" ELSE "done"

\* post_settle after the one call of settle: Ok and Err alike are answered
\* and the handler returns.
after_settle(r) == "done"

\* submit_transfer sends the transaction; settle returns and post_settle
\* answers.
submit_send(t) ==
    /\ pc[t] = "send"
    /\ \E o \in SendOutcomes :
         LET n == body[t].pnet
             r == SubmitResult(n, held[t], o, body[t])
         IN  /\ IF Accepts(n, held[t], o)
                THEN /\ chain' = [chain EXCEPT ![n] = @ + 1]
                     /\ onchain' = [onchain EXCEPT ![t] = Tx(n, chain[n])]
                ELSE UNCHANGED << chain, onchain >>
             /\ lock' = [lock EXCEPT ![n] = IF @ = t THEN 0 ELSE @]
             /\ result' = [result EXCEPT ![t] = r]
             /\ resp' = [resp EXCEPT ![t] = RespondTo(r)]
             /\ pc' = [pc EXCEPT ![t] = after_settle(r)]
    /\ UNCHANGED << cache, reqVars, held, submits, statusVars >>

(***************************************************************************)
(* GET /transaction/:tx_hash.  Strings are sequences of characters.        *)
(***************************************************************************)
HexDigits ==
    { "0", "1", "2", "3", "4", "5", "6", "7", "8", "9",
      "a", "b", "c", "d", "e", "f", "A", "B", "C", "D", "E", "F" }

\* The base58 alphabet: no "0", "O", "I", "l".
Base58Alphabet ==
    { "1", "2", "3", "4", "5", "6", "7", "8", "9",
      "A", "B", "C", "D", "E", "F", "G", "H", "J", "K", "L", "M", "N", "P", "Q",
      "R", "S", "T", "U", "V", "W", "X", "Y", "Z",
      "a", "b", "c", "d", "e", "f", "g", "h", "i", "j", "k", "m", "n", "o", "p",
      "q", "r", "s", "t", "u", "v", "w", "x", "y", "z" }

\* The path strings a client sends: concatenations of these pieces.
Pieces ==
    { << "0" >>, << "x" >>, << "a" >>, << "Z" >>, << "\"" >>, << "\\" >>,
      << "\\", "u", "0", "0", "3", "0" >> }

RECURSIVE PathsOf(_)
PathsOf(n) ==
    IF n = 0 THEN { << >> }
    ELSE LET shorter == PathsOf(n - 1)
         IN  shorter \cup { p \o q : p \in shorter, q \in Pieces }

\* The route matches a non-empty segment.
Paths == PathsOf(MaxPieces) \ { << >> }

\* format!("\"{}\"", tx_hash_str)
QuotePath(p) == << "\"" >> \o p \o << "\"" >>

\* The character a \uXXXX escape of a JSON string stands for.
FromCodePoint(h) ==
    CASE h = << "0", "0", "3", "0" >> -> "0"
      [] h = << "0", "0", "3", "3" >> -> "3"
      [] h = << "0", "0", "0", "0" >> -> "NUL"
      [] OTHER -> "other"

ParseFail == [ ok |-> FALSE, val |-> << >> ]

\* serde_json reading a string: s is what follows the opening quote, acc the
\* characters decoded so far.  The string ends at the first unescaped quote,
\* and nothing may follow it; a backslash starts an escape.
RECURSIVE JsonString(_, _)
JsonString(s, acc) ==
    IF s = << >> THEN ParseFail
    ELSE IF Head(s) = "\""
         THEN IF Tail(s) = << >> THEN [ ok |-> TRUE, val |-> acc ] ELSE ParseFail
    ELSE IF Head(s) = "\\"
         THEN IF Len(s) < 2 THEN ParseFail
              ELSE IF s[2] \in { "\"", "\\", "/" }
                   THEN JsonString(SubSeq(s, 3, Len(s)), Append(acc, s[2]))
              ELSE IF s[2] = "u"
                   THEN IF Len(s) >= 6 /\ \A k \in 3..6 : s[k] \in HexDigits
                        THEN JsonString(SubSeq(s, 7, Len(s)),
                                        Append(acc, FromCodePoint(SubSeq(s, 3, 6))))
                        ELSE ParseFail
              ELSE ParseFail
    ELSE JsonString(Tail(s), Append(acc, Head(s)))

\* serde_json::from_str of a JSON text that is one string.
JsonFromStr(text) ==
    IF text # << >> /\ Head(text) = "\"" THEN JsonString(Tail(text), << >>)
    ELSE ParseFail

\* TransactionHash (types): an EVM hash is "0x" and HashHexLen hex digits, a
\* Solana hash is base58.
IsEvmHash(str) ==
    /\ Len(str) = 2 + HashHexLen
    /\ str[1] = "0" /\ str[2] = "x"
    /\ \A k \in 3..Len(str) : str[k] \in HexDigits

IsSolanaHash(str) ==
    /\ Len(str) >= 1
    /\ \A k \in 1..Len(str) : str[k] \in Base58Alphabet

NoHash == [ ok |-> FALSE, family |-> NoValue ]

TransactionHashFromString(str) ==
    IF IsEvmHash(str) THEN [ ok |-> TRUE, family |-> "Evm" ]
    ELSE IF IsSolanaHash(str) THEN [ ok |-> TRUE, family |-> "Solana" ]
    ELSE NoHash

\* serde_json::from_str::<TransactionHash>(&format!("\"{}\"", tx_hash_str))
ParsePath(p) ==
    LET j == JsonFromStr(QuotePath(p))
    IN  IF j.ok THEN TransactionHashFromString(j.val) ELSE NoHash

\* (mutant) an adapter failure answered as a transaction not found.
StatusResponse_error_as_not_found(r) ==
    IF r.tag = "Ok" THEN HttpResponse(200, r.value)
    ELSE HttpResponse(200, TransactionStatus("NotFound"))

\* The handler's answer to what the facilitator returned.
StatusResponse(r) ==
    IF r.tag = "Ok" THEN HttpResponse(200, r.value)
    ELSE HttpResponse(500, ErrorResponse("Failed to query transaction status"))

get_transaction_status(t) ==
    /\ pc[t] = "idle"
    /\ \E p \in Paths :
         LET h == ParsePath(p)
         IN  /\ endpoint' = [endpoint EXCEPT ![t] = "status"]
             /\ path' = [path EXCEPT ![t] = p]
             /\ IF ~h.ok
                THEN /\ resp' = [resp EXCEPT ![t] =
                           HttpResponse(400, ErrorResponse("Invalid transaction hash format"))]
                     /\ UNCHANGED << result, lookup >>
                ELSE \E o \in LookupOutcomes :
                       LET r == transaction_status(o)
                       IN  /\ lookup' = [lookup EXCEPT ![t] =
                                  [ family |-> h.family, outcome |-> o ]]
                           /\ result' = [result EXCEPT ![t] = r]
                           /\ resp' = [resp EXCEPT ![t] = StatusResponse(r)]
             /\ pc' = [pc EXCEPT ![t] = "done"]
    /\ UNCHANGED << cache, body, clock, funds, chainVars >>

(***************************************************************************)
(* rate_limit.rs: RateLimitConfig.                                         *)
(***************************************************************************)
DefaultVerifyPerMinute == 60
DefaultSettlePerMinute == 30
DefaultTransactionStatusPerMinute == 120
DefaultGeneralPerMinute == 300

\* s.parse::<u32>().ok(): the number, or -1 for a string that is none.
ParseU32(str) ==
    CASE str = "0" -> 0
      [] str = "1" -> 1
      [] OTHER -> -1

\* std::env::var(..).ok().and_then(|s| s.parse().ok()).unwrap_or(default)
EnvOr(value, default) ==
    IF value = "unset" \/ ParseU32(value) < 0 THEN default ELSE ParseU32(value)

NoRate == [ loaded |-> FALSE ]

\* RateLimitConfig::from_env: None when every limit is 0.
from_env(env) ==
    LET v == EnvOr(env.verify, DefaultVerifyPerMinute)
        s == EnvOr(env.settle, DefaultSettlePerMinute)
        x == EnvOr(env.transaction_status, DefaultTransactionStatusPerMinute)
        g == EnvOr(env.general, DefaultGeneralPerMinute)
    IN  [ loaded |-> TRUE,
          some |-> ~(v = 0 /\ s = 0 /\ x = 0 /\ g = 0),
          verify_per_minute |-> v,
          settle_per_minute |-> s,
          transaction_status_per_minute |-> x,
          general_per_minute |-> g ]

\* The RATE_LIMIT_* variables of the environment.
RateEnv(v, s, x, g) ==
    [ verify |-> v, settle |-> s, transaction_status |-> x, general |-> g ]

DefaultRateEnvs == { RateEnv("unset", "unset", "unset", "unset") }

RateEnvs ==
    { RateEnv("unset", "unset", "unset", "unset"),
      RateEnv("0", "0", "0", "0"),
      RateEnv("1", "unset", "unset", "unset"),
      RateEnv("unset", "1", "1", "unset"),
      RateEnv("many", "1", "-1", "1") }

\* The endpoint types the limits are configured for.
EndpointClasses == { "verify", "settle", "status", "general" }

LimitOf(r, class) ==
    CASE class = "verify" -> r.verify_per_minute
      [] class = "settle" -> r.settle_per_minute
      [] class = "status" -> r.transaction_status_per_minute
      [] class = "general" -> r.general_per_minute

(***************************************************************************)
(* main.rs: startup.                                                       *)
(***************************************************************************)
\* What ProviderCache::from_env finds for the required networks.
CacheOutcomes == { "ok", "endpoint_missing", "endpoint_unreachable" }
ListenOutcomes == { "ok", "bind_failed" }

Booting == [ phase |-> "boot", built |-> NoValue, bound |-> FALSE ]

\* (mutant) startup going on without the providers.
OnCacheError_continue == "cache_ready"

\* main, on Err of ProviderCache::from_env: std::process::exit(1).
OnCacheError == "exited"

\* ProviderCache::from_env and main's match on its result.
startup_cache ==
    /\ proc.phase = "boot"
    /\ \E o \in CacheOutcomes :
         IF o = "ok"
         THEN /\ \E c \in CacheConfigs : cache' = c
              /\ proc' = [proc EXCEPT !.phase = "cache_ready", !.built = "ok"]
         ELSE /\ cache' = cache
              /\ proc' = [proc EXCEPT !.phase = OnCacheError, !.built = o]
    /\ UNCHANGED << pc, reqVars, result, resp, chainVars, statusVars, rate, layerVars >>

\* RateLimitConfig::from_env; the configuration is logged.
startup_rate_limit(E) ==
    /\ proc.phase = "cache_ready"
    /\ \E env \in E : rate' = from_env(env)
    /\ proc' = [proc EXCEPT !.phase = "configured"]
    /\ UNCHANGED << cache, pc, reqVars, result, resp, chainVars, statusVars, layerVars >>

\* TcpListener::bind and axum::serve.
startup_listen ==
    /\ proc.phase = "configured"
    /\ \E o \in ListenOutcomes :
         proc' = IF o = "ok"
                 THEN [proc EXCEPT !.phase = "serving", !.bound = TRUE]
                 ELSE [proc EXCEPT !.phase = "exited"]
    /\ UNCHANGED << cache, pc, reqVars, result, resp, chainVars, statusVars, rate,
                    layerVars >>

Serving == proc.phase = "serving"

\* The layers main puts on the router: tracing and CORS.  The rate limiting
\* layer is not among them.
RouterAdmits(ip, class) == TRUE

ClientIps == { "10.0.0.1", "10.0.0.2" }
OneClient == { "10.0.0.1" }

\* A request of task t reaches its handler through the router's layers.
through_layers(t, class, Ips) ==
    /\ Serving
    /\ \E ip \in Ips :
         /\ RouterAdmits(ip, class)
         /\ client' = [client EXCEPT ![t] = ip]
         /\ served' = [served EXCEPT ![ip][class] = @ + 1]
    /\ UNCHANGED bootVars

\* A handler already running goes on.
running == Serving /\ UNCHANGED << bootVars, layerVars >>

\* A minute passes: the per-minute counts start again.
minute_elapses ==
    /\ Serving
    /\ \E ip \in ClientIps, class \in EndpointClasses : served[ip][class] > 0
    /\ served' = [ip \in ClientIps |-> [class \in EndpointClasses |-> 0]]
    /\ UNCHANGED << cache, pc, reqVars, result, resp, chainVars, statusVars,
                    bootVars, client >>

(***************************************************************************)
(* Specifications.                                                         *)
(***************************************************************************)
NoLookup == [ family |-> NoValue, outcome |-> "unread" ]

Init ==
    /\ cache = {}
    /\ pc = [t \in Tasks |-> "idle"]
    /\ endpoint = [t \in Tasks |-> NoValue]
    /\ body = [t \in Tasks |-> NoBody]
    /\ clock = [t \in Tasks |-> Unread]
    /\ funds = [t \in Tasks |-> "unread"]
    /\ result = [t \in Tasks |-> NoResult]
    /\ resp = [t \in Tasks |-> NoResp]
    /\ lock = [n \in Network |-> 0]
    /\ chain = [n \in Network |-> 0]
    /\ held = [t \in Tasks |-> -1]
    /\ submits = [t \in Tasks |-> 0]
    /\ onchain = [t \in Tasks |-> NoTx]
    /\ path = [t \in Tasks |-> << >>]
    /\ lookup = [t \in Tasks |-> NoLookup]
    /\ proc = Booting
    /\ rate = NoRate
    /\ client = [t \in Tasks |-> NoValue]
    /\ served = [ip \in ClientIps |-> [class \in EndpointClasses |-> 0]]

\* The process starts, then serves one request alone, over every request
\* body and environment.
Next ==
    \/ startup_cache
    \/ startup_rate_limit(DefaultRateEnvs)
    \/ startup_listen
    \/ \E t \in SoloTasks :
         \/ through_layers(t, "verify", OneClient) /\ post_verify(t, AllCases(cache))
         \/ through_layers(t, "settle", OneClient) /\ settle_checks(t, AllCases(cache))
         \/ running /\ submit_enter(t)
         \/ running /\ submit_nonce(t)
         \/ running /\ submit_send(t)
         \/ through_layers(t, "status", OneClient) /\ get_transaction_status(t)

Spec == Init /\ [][Next]_vars

\* Concurrent requests served from the one shared facilitator.
NextConc ==
    \/ startup_cache
    \/ startup_rate_limit(DefaultRateEnvs)
    \/ startup_listen
    \/ \E t \in Tasks :
         \/ through_layers(t, "verify", OneClient) /\ post_verify(t, ConcCases(cache))
         \/ through_layers(t, "settle", OneClient) /\ settle_checks(t, ConcCases(cache))
         \/ running /\ submit_enter(t)
         \/ running /\ submit_nonce(t)
         \/ running /\ submit_send(t)

SpecConc == Init /\ [][NextConc]_vars

\* Requests of several clients under every rate limiting configuration.
NextRate ==
    \/ startup_cache
    \/ startup_rate_limit(RateEnvs)
    \/ startup_listen
    \/ minute_elapses
    \/ \E t \in Tasks :
         \/ through_layers(t, "verify", ClientIps) /\ post_verify(t, ConcCases(cache))
         \/ through_layers(t, "settle", ClientIps) /\ settle_checks(t, ConcCases(cache))
         \/ running /\ submit_enter(t)
         \/ running /\ submit_nonce(t)
         \/ running /\ submit_send(t)

SpecRate == Init /\ [][NextRate]_vars

(***************************************************************************)
(* Properties.                                                             *)
(***************************************************************************)
Done(t) == pc[t] = "done"
IsPayment(t) == endpoint[t] \in {"verify", "settle"}

\* The response is a negative VerifyResponse with this reason.
IsInvalidWith(r, code) ==
    /\ r.status = 200
    /\ r.body.kind = "VerifyResponse"
    /\ r.body.is_valid = FALSE
    /\ r.body.invalid_reason.code = code

ChecksPass(t) ==
    LET b == body[t]
    IN  /\ b.rnet \in cache
        /\ b.pscheme = b.rscheme
        /\ b.pnet = b.rnet
        /\ b.to = b.pay_to
        /\ b.sig = "valid"
        /\ clock[t].state = "ok"
        /\ b.validAfter <= clock[t].now /\ clock[t].now <= b.validBefore
        /\ b.value >= b.amount
        /\ b.asset = "usdc"
        /\ funds[t] = "enough"

\* C2: submit_transfer is called for a settle request only after every
\* check passed for that request; a request with a wrong signature is never
\* submitted and has no transaction on the chain.
C2_SubmitOnlyAfterChecks ==
    \A t \in Tasks :
        /\ (submits[t] > 0 \/ onchain[t] # NoTx \/ pc[t] \in {"read_nonce", "send"})
              => (endpoint[t] = "settle" /\ ChecksPass(t))
        /\ (IsPayment(t) /\ body[t].sig # "valid")
              => (submits[t] = 0 /\ onchain[t] = NoTx)

C2_Witness ==
    \E t \in Tasks :
        /\ Done(t) /\ endpoint[t] = "settle"
        /\ submits[t] = 1 /\ onchain[t] # NoTx
        /\ result[t].tag = "Ok"

InSubmit(t) == pc[t] \in {"read_nonce", "send"}

InfraTags == { "ContractCall", "InvalidAddress", "ClockError" }

IsRejection(r) == r.status = 400 /\ r.body.kind = "ErrorResponse"

\* C4: a ContractCall, ClockError or InvalidAddress error of verify or
\* settle, and with it an unavailable clock or a failed RPC call, is answered
\* with a 400 error body; no 200 response with valid=false comes from one of
\* these errors.
C4_InfrastructureFailureRejected ==
    \A t \in Tasks :
        (Done(t) /\ IsPayment(t)) =>
            /\ result[t].tag \in InfraTags => IsRejection(resp[t])
            /\ (clock[t].state = "unavailable" \/ funds[t] = "rpc_error")
                  => IsRejection(resp[t])
            /\ (resp[t].status = 200 /\ resp[t].body.kind = "VerifyResponse"
                  /\ ~resp[t].body.is_valid)
                  => result[t].tag \notin InfraTags

C4_Witness ==
    \E t \in Tasks :
        /\ Done(t) /\ endpoint[t] = "verify"
        /\ funds[t] = "rpc_error"
        /\ result[t].tag = "ContractCall"
        /\ IsRejection(resp[t])

SchemeTags ==
    { "SchemeMismatch", "ReceiverMismatch", "InvalidSignature", "InvalidTiming",
      "InsufficientValue" }

\* C5: SchemeMismatch, ReceiverMismatch, InvalidSignature, InvalidTiming and
\* InsufficientValue are answered valid=false with reason InvalidScheme and
\* the payer of the error; a Solana-devnet payload whose receiver is not
\* pay_to is answered so, with the payload's payer.
C5_SchemeErrorsInvalidScheme ==
    \A t \in Tasks :
        (Done(t) /\ IsPayment(t)) =>
            /\ result[t].tag \in SchemeTags =>
                  /\ IsInvalidWith(resp[t], "InvalidScheme")
                  /\ resp[t].body.payer = result[t].payer
                  /\ resp[t].body.payer = body[t].from
            /\ (endpoint[t] = "verify"
                  /\ body[t].rnet = "solana-devnet" /\ body[t].pnet = "solana-devnet"
                  /\ body[t].pscheme = body[t].rscheme
                  /\ body[t].to # body[t].pay_to) =>
                  resp[t] = HttpResponse(200,
                              [ kind |-> "VerifyResponse", is_valid |-> FALSE,
                                payer |-> body[t].from,
                                invalid_reason |-> Reason("InvalidScheme") ])

C5_Witness ==
    \E t \in Tasks :
        /\ Done(t) /\ endpoint[t] = "verify"
        /\ body[t].rnet = "solana-devnet" /\ body[t].pnet = "solana-devnet"
        /\ body[t].to # body[t].pay_to
        /\ result[t].tag = "ReceiverMismatch"
        /\ IsInvalidWith(resp[t], "InvalidScheme")
        /\ resp[t].body.payer = Payer

\* C6: every VerifyResponse sent, from the success path or from the error
\* mapping, carries a reason exactly when it is negative.
C6_ReasonIffInvalid ==
    \A t \in Tasks :
        resp[t].body.kind = "VerifyResponse" =>
            (resp[t].body.invalid_reason # NoReason <=> ~resp[t].body.is_valid)

C6_Witness ==
    \E t \in Tasks :
        /\ Done(t) /\ endpoint[t] = "verify"
        /\ result[t].tag = "InsufficientFunds"
        /\ ~resp[t].body.is_valid
        /\ resp[t].body.invalid_reason.code = "InsufficientFunds"

\* C7 as stated: a failed settle is answered with a SettleResponse that
\* tells whether a transaction was submitted before the failure, and which.
C7_SettleFailureCarriesProgress ==
    \A t \in Tasks :
        (Done(t) /\ endpoint[t] = "settle" /\ result[t].tag # "Ok") =>
            /\ resp[t].body.kind = "SettleResponse"
            /\ ~resp[t].body.success
            /\ resp[t].body.transaction = onchain[t]

\* C8: a request that reaches the timing step passes it exactly when
\* validAfter <= now <= validBefore, both ends included, and fails it with
\* InvalidTiming otherwise; an unavailable clock gives ClockError.
C8_TimingWindowInclusive ==
    \A t \in Tasks :
        (IsPayment(t) /\ clock[t] # Unread) =>
            IF clock[t].state = "unavailable"
            THEN result[t].tag = "ClockError"
            ELSE IF /\ body[t].validAfter <= clock[t].now
                    /\ clock[t].now <= body[t].validBefore
                 THEN result[t].tag \notin {"InvalidTiming", "ClockError"}
                 ELSE result[t].tag = "InvalidTiming"

C8_Witness ==
    \E t \in Tasks :
        /\ Done(t) /\ endpoint[t] = "verify"
        /\ clock[t].state = "ok"
        /\ body[t].validBefore = clock[t].now
        /\ body[t].validAfter = clock[t].now
        /\ result[t].tag = "Ok"
        /\ resp[t].body.is_valid

\* C9: in a transaction-status query an adapter failure is answered 500 with
\* an error body and never as NotFound; a hash the chain does not know is
\* answered 200 with state NotFound.
C9_AdapterFailureNotNotFound ==
    \A t \in Tasks :
        (Done(t) /\ endpoint[t] = "status" /\ lookup[t] # NoLookup) =>
            /\ lookup[t].outcome = "rpc_error" =>
                  (resp[t].status = 500 /\ resp[t].body.kind = "ErrorResponse")
            /\ lookup[t].outcome = "missing" =>
                  resp[t] = HttpResponse(200, TransactionStatus("NotFound"))
            /\ (resp[t].body.kind = "TransactionStatus"
                  /\ resp[t].body.state = "NotFound")
                  => lookup[t].outcome = "missing"

C9_Witness ==
    \E t \in Tasks :
        /\ Done(t) /\ endpoint[t] = "status"
        /\ lookup[t].outcome = "rpc_error"
        /\ resp[t].status = 500

\* C10 as stated: a path string that is neither an EVM hash nor a Solana
\* hash is answered 400 and no adapter is consulted for it.
C10_MalformedHashRejected ==
    \A t \in Tasks :
        (Done(t) /\ endpoint[t] = "status"
           /\ ~IsEvmHash(path[t]) /\ ~IsSolanaHash(path[t]))
            => (resp[t].status = 400 /\ lookup[t] = NoLookup)

(***************************************************************************)
(* C11: the process serves no request unless the construction of the       *)
(* Provider Cache succeeded: when the construction fails the process has   *)
(* exited with the listener never bound and no request handled; and once   *)
(* the process serves, the Provider Cache is never modified.               *)
(***************************************************************************)
Handling == \E t \in Tasks : pc[t] # "idle"

C11_ServesOnlyBuilt ==
    /\ (Serving \/ proc.bound \/ Handling) =>
           proc.built = "ok" /\ cache \in CacheConfigs
    /\ proc.built \in CacheOutcomes \ {"ok"} =>
           proc.phase = "exited" /\ ~proc.bound /\ ~Handling

C11_CacheFixedWhileServing == Serving => cache' = cache

C11_ServingNeedsProviderCache ==
    []C11_ServesOnlyBuilt /\ [][C11_CacheFixedWhileServing]_vars

\* A request was answered by the serving process; its cache is the built one.
C11_Witness ==
    /\ Serving
    /\ proc.built = "ok"
    /\ \E t \in Tasks : Done(t) /\ resp[t] # NoResp


(***************************************************************************)
(* C12: when rate limiting is enabled (from_env returns Some), within one  *)
(* minute no client IP address is served more requests of an endpoint type *)
(* than the limit configured for that type.                                *)
(***************************************************************************)
RateLimitingEnabled == rate.loaded /\ rate.some

C12_LimitedPerIpAndEndpoint ==
    RateLimitingEnabled =>
        \A ip \in ClientIps, class \in EndpointClasses :
            served[ip][class] <= LimitOf(rate, class)

(***************************************************************************)
(* C13: a verify or settle request in which a check fails is answered with *)
(* the error of the first failing step in the order network-known, scheme, *)
(* network-match, receiver, signature, timing, value, funds, and no later  *)
(* step is executed: the clock is not read when an earlier step than       *)
(* timing failed, the funds are not queried when an earlier step than      *)
(* funds failed, and nothing is submitted.                                 *)
(***************************************************************************)
C13_Order ==
    << "network_known", "scheme", "network_match", "receiver", "signature",
       "timing", "value", "funds" >>

C13_Check(t, k) == CheckStep(C13_Order[k], body[t], cache, clock[t], funds[t])

\* Step k is the first one that request t fails.
C13_FirstFailing(t, k) ==
    /\ \A j \in 1..(k - 1) : C13_Check(t, j) = "pass"
    /\ C13_Check(t, k) # "pass"

C13_FirstFailureReported ==
    \A t \in Tasks :
        (pc[t] # "idle" /\ IsPayment(t)) =>
            \A k \in 1..Len(C13_Order) :
                C13_FirstFailing(t, k) =>
                    /\ Done(t)
                    /\ result[t].tag = C13_Check(t, k)
                    /\ (k < 6 => clock[t] = Unread)
                    /\ (k < 8 => funds[t] = "unread")
                    /\ submits[t] = 0 /\ held[t] = -1 /\ onchain[t] = NoTx

\* A request failing the scheme, receiver and signature checks at once was
\* answered with the scheme's error, the clock and the funds left alone.
C13_Witness ==
    \E t \in Tasks :
        /\ Done(t) /\ IsPayment(t)
        /\ body[t].rnet \in cache
        /\ body[t].pscheme # body[t].rscheme
        /\ body[t].to # body[t].pay_to
        /\ body[t].sig = "wrong"
        /\ C13_FirstFailing(t, 2)
        /\ result[t].tag = "SchemeMismatch"
        /\ clock[t] = Unread /\ funds[t] = "unread"

(***************************************************************************)
(* C14: nothing is retried: a POST /settle request runs settle once and    *)
(* enters submit_transfer at most once, also when the submission or an     *)
(* earlier step fails with an infrastructure error; an answered request    *)
(* takes no further step, and a network never holds more transactions      *)
(* than requests that submitted to it.                                     *)
(***************************************************************************)
IsSettle(t) == endpoint[t] = "settle"

C14_Submitted(n) == { t \in Tasks : IsSettle(t) /\ submits[t] > 0 /\ body[t].pnet = n }

C14_NoAutomaticRetry ==
    /\ \A t \in Tasks :
         IsSettle(t) =>
            /\ submits[t] <= 1
            /\ Done(t) =>
                 /\ resp[t] # NoResp /\ result[t] # NoResult
                 /\ ~ENABLED settle_checks(t, AllCases(cache))
                 /\ ~ENABLED submit_enter(t)
                 /\ ~ENABLED submit_nonce(t)
                 /\ ~ENABLED submit_send(t)
    /\ \A n \in Network : chain[n] <= Cardinality(C14_Submitted(n))

\* A settlement whose submission reached the network but whose reply was
\* lost: answered with the error after the one submission.
C14_Witness ==
    \E t \in Tasks :
        /\ IsSettle(t) /\ Done(t)
        /\ result[t].tag = "ContractCall"
        /\ submits[t] = 1
        /\ onchain[t] # NoTx
        /\ resp[t] = bad_request

=============================================================================
